---- MODULE Spec2Model ----
(***************************************************************************)
(* A model of the AssetWise AI camera application:                         *)
(*   - the Express backend (backend/server.js): POST /api/generate,        *)
(*     POST /api/face-swap, GET /download/:imageId, GET /health, the       *)
(*     hourly cleanup of global.imageStore;                                *)
(*   - the React front end (src/App.tsx): the five-screen state machine    *)
(*     with its asynchronous completions (getUserMedia, FileReader, fetch).*)
(*                                                                         *)
(* JavaScript strings are sequences of tokens (a token is a TLA+ string    *)
(* standing for a run of characters); JavaScript values that may be        *)
(* undefined are tagged records.                                           *)
(***************************************************************************)
EXTENDS Integers, Sequences, FiniteSets, Bags, TLC

(***************************************************************************)
(* Bounds of the model.                                                    *)
(***************************************************************************)
\* request slots of the store-lifecycle specification
MaxReqs == 1
\* files per upload that are enumerated one by one
MaxFiles == 2
\* bytes of a downloaded image
MaxImgLen == 3
\* clock ticks of half an hour each that the store-lifecycle specification runs
MaxTicks == 4
\* asynchronous operations of one UI instance that are pending together
MaxPending == 2

(***************************************************************************)
(* JavaScript values.                                                      *)
(***************************************************************************)
Undef == [t |-> "undefined"]
Null == [t |-> "null"]
Str(s) == [t |-> "string", v |-> s]
Bool(b) == [t |-> "boolean", v |-> b]
Num(n) == [t |-> "number", v |-> n]
Obj(o) == [t |-> "object", v |-> o]
\* new Date().toISOString(): the text of the time of day, whose value the
\* model does not keep
IsoDate(n) == Str(<< "(ISO 8601 time)" >>)

IsString(x) == x.t = "string"

\* JavaScript truthiness: undefined, null, "", 0 and false are falsy
Truthy(x) ==
  CASE x.t = "undefined" -> FALSE
    [] x.t = "null" -> FALSE
    [] x.t = "string" -> Len(x.v) > 0
    [] x.t = "boolean" -> x.v
    [] x.t = "number" -> x.v # 0
    [] OTHER -> TRUE

\* a || b
OrElse(a, b) == IF Truthy(a) THEN a ELSE b

WhiteSpace == {" ", "\t", "\n"}

RECURSIVE TrimStart(_)
TrimStart(s) ==
  IF s # <<>> /\ Head(s) \in WhiteSpace THEN TrimStart(Tail(s)) ELSE s

RECURSIVE TrimEnd(_)
TrimEnd(s) ==
  IF s # <<>> /\ s[Len(s)] \in WhiteSpace
  THEN TrimEnd(SubSeq(s, 1, Len(s) - 1))
  ELSE s

\* a variant that removes the leading white space only
TrimLeadingOnly(s) == TrimStart(s)

\* String.prototype.trim
Trim(s) == TrimEnd(TrimStart(s))

\* res.json(body): JSON.stringify drops the properties whose value is undefined
Json(body) ==
  LET keep == {k \in DOMAIN body : body[k] # Undef}
  IN [k \in keep |-> body[k]]

\* an HTTP response: status code, headers that were set explicitly, body
Response(status, headers, body) ==
  [status |-> status, headers |-> headers, body |-> body]

NoHeaders == <<>>

\* res.status(code).json(body)
JsonResponse(status, body) == Response(status, NoHeaders, Json(body))

(***************************************************************************)
(* Base64 (Buffer.toString('base64') and Buffer.from(s, 'base64')).        *)
(***************************************************************************)
B64Alphabet ==
  << "A","B","C","D","E","F","G","H","I","J","K","L","M","N","O","P",
     "Q","R","S","T","U","V","W","X","Y","Z","a","b","c","d","e","f",
     "g","h","i","j","k","l","m","n","o","p","q","r","s","t","u","v",
     "w","x","y","z","0","1","2","3","4","5","6","7","8","9","+","/" >>

B64Char(n) == B64Alphabet[n + 1]

B64Index(c) == (CHOOSE i \in 1..64 : B64Alphabet[i] = c) - 1

RECURSIVE Base64Encode(_)
Base64Encode(bytes) ==
  IF Len(bytes) = 0 THEN <<>>
  ELSE IF Len(bytes) = 1 THEN
    << B64Char(bytes[1] \div 4), B64Char((bytes[1] % 4) * 16), "=", "=" >>
  ELSE IF Len(bytes) = 2 THEN
    << B64Char(bytes[1] \div 4),
       B64Char((bytes[1] % 4) * 16 + bytes[2] \div 16),
       B64Char((bytes[2] % 16) * 4), "=" >>
  ELSE
    << B64Char(bytes[1] \div 4),
       B64Char((bytes[1] % 4) * 16 + bytes[2] \div 16),
       B64Char((bytes[2] % 16) * 4 + bytes[3] \div 64),
       B64Char(bytes[3] % 64) >>
    \o Base64Encode(SubSeq(bytes, 4, Len(bytes)))

RECURSIVE Base64Decode(_)
Base64Decode(s) ==
  IF Len(s) < 2 \/ s[1] = "=" \/ s[2] = "=" THEN <<>>
  ELSE
    LET a == B64Index(s[1])
        b == B64Index(s[2])
        b1 == (a * 4 + b \div 16) % 256
    IN IF Len(s) < 3 \/ s[3] = "=" THEN << b1 >>
       ELSE
         LET c == B64Index(s[3])
             b2 == ((b % 16) * 16 + c \div 4) % 256
         IN IF Len(s) < 4 \/ s[4] = "=" THEN << b1, b2 >>
            ELSE
              LET d == B64Index(s[4])
                  b3 == ((c % 4) * 64 + d) % 256
              IN << b1, b2, b3 >> \o Base64Decode(SubSeq(s, 5, Len(s)))

\* `data:image/jpeg;base64,${base64}`
JpegDataUrl(base64) == << "data:image/jpeg;base64," >> \o base64

(***************************************************************************)
(* QR codes (QRCode.toDataURL): the picture is kept as the text it         *)
(* encodes behind the PNG data-URL prefix; QrDecode is what a scanner      *)
(* reads back from the picture.                                            *)
(***************************************************************************)
QrToDataURL(text) == << "data:image/png;base64,qr:" >> \o text

QrDecode(dataUrl) == Tail(dataUrl)

(***************************************************************************)
(* Program constants.                                                      *)
(***************************************************************************)
\* multer limits: { fileSize: 10 * 1024 * 1024, files: 10 }
FileSizeLimit == 10 * 1024 * 1024
FilesLimit == 10

\* const oneHour = 60 * 60 * 1000
oneHour == 60 * 60 * 1000
\* setInterval(..., 60 * 60 * 1000)
CleanupInterval == 60 * 60 * 1000

\* the clock of the model advances in steps of half an hour
TickMs == 30 * 60 * 1000

DefaultPrompt ==
  << "Transform this portrait into a beautiful stylized artwork with enhanced colors, artistic lighting, and professional quality. Maintain the person's facial features while applying artistic enhancement." >>

(***************************************************************************)
(* Thrown errors: message, code (Node system errors), status (FAL          *)
(* errors), body.detail (FAL errors), response.status (axios errors).      *)
(***************************************************************************)
Err(message, code, status, detail, responseStatus) ==
  [message |-> message, code |-> code, status |-> status,
   detail |-> detail, responseStatus |-> responseStatus]

PlainError(message) == Err(message, "", Undef, Undef, Undef)

\* String.prototype.includes, for a needle that is one token
Includes(s, needle) == \E i \in 1..Len(s) : s[i] = needle

(***************************************************************************)
(* The cors middleware's origin callback.                                  *)
(***************************************************************************)
\* /https:\/\/.*\.railway\.app$/
MatchesRailway(o) ==
  /\ Len(o) >= 2
  /\ o[Len(o)] = ".railway.app"
  /\ \E i \in 1..(Len(o) - 1) : o[i] = "https://"

\* /https:\/\/.*\.up\.railway\.app$/
MatchesUpRailway(o) ==
  /\ Len(o) >= 3
  /\ o[Len(o)] = ".railway.app"
  /\ o[Len(o) - 1] = ".up"
  /\ \E i \in 1..(Len(o) - 2) : o[i] = "https://"

devOrigins ==
  { << "http://", "localhost:3000" >>, << "http://", "localhost:5173" >>,
    << "http://", "127.0.0.1:3000" >>, << "http://", "127.0.0.1:5173" >> }

\* TRUE when the callback is called with (null, true)
CorsAllows(e, origin) ==
  IF ~Truthy(origin) THEN TRUE
  ELSE IF e.NODE_ENV = Str(<< "production" >>)
       THEN MatchesRailway(origin.v) \/ MatchesUpRailway(origin.v)
       ELSE IF origin.v \in devOrigins THEN TRUE ELSE TRUE

(***************************************************************************)
(* The multer middleware upload.any().                                     *)
(***************************************************************************)
File(fieldname, mimetype, size) ==
  [fieldname |-> fieldname, mimetype |-> mimetype, size |-> size]

\* a variant that accepts files of every type
fileFilterAnyType(file) == TRUE

\* file.mimetype.startsWith('image/')
fileFilter(file) == file.mimetype # <<>> /\ Head(file.mimetype) = "image/"

\* the error multer raises at the i-th file, <<>> when it accepts the file
FileError(files, i) ==
  IF i > FilesLimit THEN << "Too many files" >>
  ELSE IF ~fileFilter(files[i]) THEN << "Only image files are allowed" >>
  ELSE IF files[i].size > FileSizeLimit THEN << "File too large" >>
  ELSE <<>>

\* the first error of the upload, <<>> when every file is accepted
MulterError(files) ==
  LET bad == {i \in 1..Len(files) : FileError(files, i) # <<>>}
  IN IF bad = {} THEN <<>>
     ELSE FileError(files, CHOOSE i \in bad : \A j \in bad : i <= j)

Arr(files) == [t |-> "array", v |-> files]

\* cors, then upload.any(): an error goes to the final error handler; a body
\* that is not multipart passes multer untouched, req.files stays undefined
Middleware(e, in) ==
  IF ~CorsAllows(e, in.origin)
  THEN [error |-> << "Not allowed by CORS" >>, files |-> Undef]
  ELSE IF in.multipart /\ MulterError(in.files) # <<>>
  THEN [error |-> MulterError(in.files), files |-> Undef]
  ELSE [error |-> <<>>, files |-> IF in.multipart THEN Arr(in.files) ELSE Undef]

\* a variant that answers with the status of a rejected upload
FinalErrorHandlerPayloadTooLarge(message) ==
  JsonResponse(413, [error |-> Str(<< "Internal server error" >>),
                     details |-> Str(message)])

\* app.use((error, req, res, next) => ...)
FinalErrorHandler(message) ==
  JsonResponse(500, [error |-> Str(<< "Internal server error" >>),
                     details |-> Str(message)])

(***************************************************************************)
(* What one synchronous stretch of a handler does: the responses it sends, *)
(* the external call it awaits next ("none" when the handler has ended),   *)
(* the handler's locals, the entries it writes to global.imageStore.       *)
(***************************************************************************)
NoCtx ==
  [falInput |-> Undef, falError |-> Undef, result |-> Undef, url |-> Undef,
   image |-> <<>>, imageId |-> <<>>, downloadUrl |-> <<>>, qrText |-> <<>>]

Return(resp, ctx) == [resp |-> << resp >>, call |-> "none", ctx |-> ctx, put |-> <<>>]

Await(call, ctx) == [resp |-> <<>>, call |-> call, ctx |-> ctx, put |-> <<>>]

AwaitPut(call, ctx, id, value) ==
  [resp |-> <<>>, call |-> call, ctx |-> ctx, put |-> << << id, value >> >>]

\* files.find(f => f.fieldname === name) as the sequence of matches
RECURSIVE FilesOf(_, _)
FilesOf(files, name) ==
  IF files = <<>> THEN <<>>
  ELSE (IF Head(files).fieldname = name THEN << Head(files) >> ELSE <<>>)
       \o FilesOf(Tail(files), name)

\* `data:${file.mimetype};base64,${file.buffer.toString('base64')}`
UploadDataUrl(file) ==
  << "data:" >> \o file.mimetype \o << ";base64,", "(upload)" >>

(***************************************************************************)
(* POST /api/generate                                                      *)
(***************************************************************************)
\* a variant whose catch block logs the error and sends nothing
GenerateCatchSilent(error, ctx) ==
  [resp |-> <<>>, call |-> "none", ctx |-> ctx, put |-> <<>>]

\* catch (error) of /api/generate
GenerateCatch(error, ctx) ==
  Return(JsonResponse(500, [error |-> Str(<< "Failed to process image" >>),
                            details |-> Str(error.message)]), ctx)

\* a variant that sends the supplied prompt whatever the feature is
GenerateBeginAnyPrompt(files, body) ==
  IF files = Undef
  THEN GenerateCatch(PlainError(<< "Cannot read properties of undefined (reading 'find')" >>), NoCtx)
  ELSE
    LET matches == FilesOf(files.v, "image")
        url == IF matches = <<>> THEN <<>> ELSE UploadDataUrl(matches[1])
    IN IF matches = <<>>
       THEN Return(JsonResponse(400, [error |-> Str(<< "No main image provided" >>)]), NoCtx)
       ELSE IF Truthy(body.prompt) /\ Truthy(Str(Trim(body.prompt.v)))
       THEN Await("fal", [NoCtx EXCEPT !.falInput =
                            Obj([prompt |-> Trim(body.prompt.v), image_url |-> url])])
       ELSE IF body.feature = Str(<< "custom" >>)
       THEN Return(JsonResponse(400, [error |-> Str(<< "Custom prompt is required" >>)]), NoCtx)
       ELSE Await("fal", [NoCtx EXCEPT !.falInput =
                            Obj([prompt |-> DefaultPrompt, image_url |-> url])])

\* the handler up to the await of fal.subscribe
GenerateBegin(files, body) ==
  IF files = Undef
  THEN GenerateCatch(PlainError(<< "Cannot read properties of undefined (reading 'find')" >>), NoCtx)
  ELSE
    LET matches == FilesOf(files.v, "image")
        url == IF matches = <<>> THEN <<>> ELSE UploadDataUrl(matches[1])
    IN IF matches = <<>>
       THEN Return(JsonResponse(400, [error |-> Str(<< "No main image provided" >>)]), NoCtx)
       ELSE IF body.feature = Str(<< "custom" >>)
       THEN IF ~Truthy(body.prompt) \/ ~Truthy(Str(Trim(body.prompt.v)))
            THEN Return(JsonResponse(400, [error |-> Str(<< "Custom prompt is required" >>)]), NoCtx)
            ELSE Await("fal", [NoCtx EXCEPT !.falInput =
                                 Obj([prompt |-> Trim(body.prompt.v), image_url |-> url])])
       ELSE Await("fal", [NoCtx EXCEPT !.falInput =
                            Obj([prompt |-> DefaultPrompt, image_url |-> url])])

\* result.data?.images?.[0]?.url || result.images?.[0]?.url || result.data?.image_url
GenerateImageUrl(result) ==
  OrElse(OrElse(result["data.images[0].url"], result["images[0].url"]),
         result["data.image_url"])

\* from the return of fal.subscribe to the await of axios.get
GenerateAfterFal(outcome, ctx) ==
  IF outcome.kind = "throw" THEN GenerateCatch(outcome.error, ctx)
  ELSE
    LET generatedImageUrl == GenerateImageUrl(outcome.result)
    IN IF ~Truthy(generatedImageUrl)
       THEN GenerateCatch(PlainError(<< "No generated image found in response" >>), ctx)
       ELSE Await("download", [ctx EXCEPT !.url = generatedImageUrl])

\* the text QRCode.toDataURL is called with in /api/generate
GenerateQrText(generatedImageUrl) == generatedImageUrl.v

\* a variant that tries the download again when it fails
GenerateAfterDownloadRetry(outcome, ctx) ==
  IF outcome.kind = "throw" THEN Await("download", ctx)
  ELSE Await("qr", [ctx EXCEPT !.image = outcome.data,
                               !.qrText = GenerateQrText(ctx.url)])

\* from the return of axios.get to the await of QRCode.toDataURL
GenerateAfterDownload(outcome, ctx) ==
  IF outcome.kind = "throw" THEN GenerateCatch(outcome.error, ctx)
  ELSE Await("qr", [ctx EXCEPT !.image = outcome.data,
                               !.qrText = GenerateQrText(ctx.url)])

\* from the return of QRCode.toDataURL to res.json
GenerateAfterQr(outcome, ctx, body, t) ==
  IF outcome.kind = "throw" THEN GenerateCatch(outcome.error, ctx)
  ELSE Return(JsonResponse(200,
         [success |-> Bool(TRUE),
          generatedImage |-> Str(JpegDataUrl(Base64Encode(ctx.image))),
          publicImageUrl |-> ctx.url,
          qrCode |-> Str(QrToDataURL(ctx.qrText)),
          feature |-> body.feature,
          promptUsed |-> Str(ctx.falInput.v.prompt),
          timestamp |-> IsoDate(t)]), ctx)

(***************************************************************************)
(* POST /api/face-swap                                                     *)
(***************************************************************************)
\* new Blob([file.buffer], { type: file.mimetype })
Blob(file) == [size |-> file.size, type |-> file.mimetype]

\* the outer catch (error) of /api/face-swap
FaceSwapCatch(error, ctx, t) ==
  LET mapped ==
        IF Includes(error.message, "No generated image found")
        THEN [m |-> << "FAL.ai returned no image" >>,
              d |-> << "The face-swap completed but no image was returned. This might be due to face detection issues." >>]
        ELSE IF error.code = "ENOTFOUND"
        THEN [m |-> << "Network error" >>,
              d |-> << "Unable to connect to FAL.ai services" >>]
        ELSE IF error.code = "ETIMEDOUT"
        THEN [m |-> << "Request timeout" >>,
              d |-> << "FAL.ai request took too long to complete" >>]
        ELSE IF error.responseStatus = Num(404)
        THEN [m |-> << "Generated image not found" >>,
              d |-> << "The generated image URL is no longer accessible" >>]
        ELSE [m |-> << "Failed to process advanced face-swap" >>, d |-> error.message]
  IN Return(JsonResponse(500, [error |-> Str(mapped.m), details |-> Str(mapped.d),
                               timestamp |-> IsoDate(t)]), ctx)

\* a variant that takes every non-empty value of the field for true
UpscaleFlagTruthy(upscale) == Truthy(upscale)

\* upscale === 'true' || upscale === true
UpscaleFlag(upscale) == upscale = Str(<< "true" >>) \/ upscale = Bool(TRUE)

\* a variant that looks at the files before it looks at FAL_KEY
FaceSwapBeginFilesFirst(e, reqFiles, body) ==
  LET files == IF reqFiles = Undef THEN <<>> ELSE reqFiles.v
      face == FilesOf(files, "face_image")
      target == FilesOf(files, "target_image")
  IN IF face = <<>>
     THEN Return(JsonResponse(400, [error |-> Str(<< "Face image (camera capture) is required" >>)]), NoCtx)
     ELSE IF target = <<>>
     THEN Return(JsonResponse(400, [error |-> Str(<< "Target image is required" >>)]), NoCtx)
     ELSE IF ~e.FAL_KEY
     THEN Return(JsonResponse(500, [error |-> Str(<< "FAL_KEY not configured" >>)]), NoCtx)
     ELSE Await("fal", [NoCtx EXCEPT !.falInput =
            Obj([face_image_0 |-> Blob(face[1]),
                 target_image |-> Blob(target[1]),
                 gender_0 |-> OrElse(body.gender_0, Str(<< "male" >>)),
                 workflow_type |-> OrElse(body.workflow_type, Str(<< "user_hair" >>)),
                 upscale |-> Bool(UpscaleFlag(body.upscale))])])

\* the handler up to the await of fal.subscribe
FaceSwapBegin(e, reqFiles, body) ==
  LET files == IF reqFiles = Undef THEN <<>> ELSE reqFiles.v
      face == FilesOf(files, "face_image")
      target == FilesOf(files, "target_image")
  IN IF ~e.FAL_KEY
     THEN Return(JsonResponse(500, [error |-> Str(<< "FAL_KEY not configured" >>)]), NoCtx)
     ELSE IF face = <<>>
     THEN Return(JsonResponse(400, [error |-> Str(<< "Face image (camera capture) is required" >>)]), NoCtx)
     ELSE IF target = <<>>
     THEN Return(JsonResponse(400, [error |-> Str(<< "Target image is required" >>)]), NoCtx)
     ELSE Await("fal", [NoCtx EXCEPT !.falInput =
            Obj([face_image_0 |-> Blob(face[1]),
                 target_image |-> Blob(target[1]),
                 gender_0 |-> OrElse(body.gender_0, Str(<< "male" >>)),
                 workflow_type |-> OrElse(body.workflow_type, Str(<< "user_hair" >>)),
                 upscale |-> Bool(UpscaleFlag(body.upscale))])])

\* a variant that prefers the detail of the FAL body to the fixed texts
FalErrorDetailsBodyFirst(falError) ==
  IF Truthy(falError.detail) THEN falError.detail.v
  ELSE IF falError.status = Num(500)
  THEN << "FAL.ai internal server error." >>
  ELSE IF falError.status = Num(400)
  THEN << "Invalid input parameters. Check image formats and parameters." >>
  ELSE falError.message

\* the details of the inner catch (falError)
FalErrorDetails(falError) ==
  IF falError.status = Num(500)
  THEN << "FAL.ai internal server error. This could be due to:\n",
          "* Invalid image format or corruption\n",
          "* Images too large or too small\n",
          "* Face detection failed\n",
          "* Temporary FAL.ai service issues" >>
  ELSE IF falError.status = Num(400)
  THEN << "Invalid input parameters. Check image formats and parameters." >>
  ELSE IF Truthy(falError.detail) THEN falError.detail.v
  ELSE falError.message

possiblePaths ==
  << "data.image.url", "data.images[0].url", "image.url", "images[0].url",
     "data.output.url", "data.result.url", "data.generated_image.url",
     "data.swap_image.url" >>

\* a variant that takes the last candidate that qualifies
FaceSwapImageUrlLast(result) ==
  LET ok == {i \in 1..Len(possiblePaths) :
               Truthy(result[possiblePaths[i]]) /\ IsString(result[possiblePaths[i]])}
  IN IF ok = {} THEN Undef
     ELSE result[possiblePaths[CHOOSE i \in ok : \A j \in ok : i >= j]]

\* possiblePaths.find(url => url && typeof url === 'string')
FaceSwapImageUrl(result) ==
  LET ok == {i \in 1..Len(possiblePaths) :
               Truthy(result[possiblePaths[i]]) /\ IsString(result[possiblePaths[i]])}
  IN IF ok = {} THEN Undef
     ELSE result[possiblePaths[CHOOSE i \in ok : \A j \in ok : i <= j]]

\* !!result.data, for a result given by the values at its paths
HasData(result) ==
  \E p \in DOMAIN result :
    p \in { "data.image.url", "data.images[0].url", "data.output.url", "data.result.url",
            "data.generated_image.url", "data.swap_image.url", "data.image_url" }
    /\ result[p] # Undef

\* from the return of fal.subscribe to the await of axios.get
FaceSwapAfterFal(outcome, ctx, t) ==
  IF outcome.kind = "throw"
  THEN Return(JsonResponse(500,
         [error |-> Str(<< "FAL.ai face-swap failed" >>),
          details |-> Str(FalErrorDetails(outcome.error)),
          falStatus |-> outcome.error.status,
          troubleshooting |-> Obj([faceImageSize |-> ctx.falInput.v.face_image_0.size,
                                   targetImageSize |-> ctx.falInput.v.target_image.size,
                                   faceImageType |-> ctx.falInput.v.face_image_0.type,
                                   targetImageType |-> ctx.falInput.v.target_image.type]),
          timestamp |-> IsoDate(t)]),
         [ctx EXCEPT !.falError = outcome.error])
  ELSE
    LET generatedImageUrl == FaceSwapImageUrl(outcome.result)
    IN IF ~Truthy(generatedImageUrl)
       THEN Return(JsonResponse(500,
              [error |-> Str(<< "No generated image found in face-swap response" >>),
               details |-> Str(<< "FAL.ai completed the request but returned no image URL" >>),
               resultStructure |-> Obj([hasData |-> Bool(HasData(outcome.result))]),
               timestamp |-> IsoDate(t)]),
              [ctx EXCEPT !.result = outcome.result])
       ELSE Await("download", [ctx EXCEPT !.result = outcome.result,
                                          !.url = generatedImageUrl])

DigitChars == << "0", "1", "2", "3", "4", "5", "6", "7", "8", "9" >>

\* the decimal digits of a non-negative number, as `${n}` writes them
RECURSIVE Digits(_)
Digits(n) ==
  IF n < 10 THEN << DigitChars[n + 1] >>
  ELSE Digits(n \div 10) \o << DigitChars[(n % 10) + 1] >>

\* `${Date.now()}-${Math.random().toString(36).substr(2, 9)}`
MakeImageId(t, random) == Digits(t) \o << "-" >> \o random

\* imageId.split('-')[0]
RECURSIVE BeforeDash(_)
BeforeDash(s) ==
  IF s = <<>> \/ Head(s) = "-" THEN <<>> ELSE << Head(s) >> \o BeforeDash(Tail(s))

IsDigit(c) == \E i \in 1..10 : DigitChars[i] = c

DigitValue(c) == (CHOOSE i \in 1..10 : DigitChars[i] = c) - 1

\* parseInt of a string of decimal digits; -1 stands for NaN
RECURSIVE ParseDigits(_, _)
ParseDigits(s, acc) ==
  IF s = <<>> \/ ~IsDigit(Head(s)) THEN acc
  ELSE ParseDigits(Tail(s), acc * 10 + DigitValue(Head(s)))

ParseInt(s) == IF s = <<>> \/ ~IsDigit(Head(s)) THEN -1 ELSE ParseDigits(s, 0)

\* `${req.protocol}://${req.get('host')}/download/${imageId}`
DownloadUrl(protocol, host, imageId) ==
  << protocol, "://", host, "/download/" >> \o imageId

\* a variant that encodes the server's own download URL
FaceSwapQrTextDownloadUrl(generatedImageUrl, downloadUrl) == downloadUrl

\* the text QRCode.toDataURL is called with in /api/face-swap
FaceSwapQrText(generatedImageUrl, downloadUrl) == generatedImageUrl.v

\* from the return of axios.get to the await of QRCode.toDataURL: the image is
\* stored in global.imageStore before the QR code is made. The FAL result is
\* not read again once the URL has been chosen, and is no longer kept.
FaceSwapAfterDownload(outcome, ctx, in, t, random) ==
  LET locals == [ctx EXCEPT !.result = Undef]
  IN IF outcome.kind = "throw" THEN FaceSwapCatch(outcome.error, locals, t)
     ELSE
       LET generatedImageBase64 == Base64Encode(outcome.data)
           imageId == MakeImageId(t, random)
           downloadUrl == DownloadUrl(in.protocol, in.host, imageId)
       IN AwaitPut("qr",
                   [locals EXCEPT !.image = outcome.data, !.imageId = imageId,
                                  !.downloadUrl = downloadUrl,
                                  !.qrText = FaceSwapQrText(ctx.url, downloadUrl)],
                   imageId, generatedImageBase64)

\* from the return of QRCode.toDataURL to res.json
FaceSwapAfterQr(outcome, ctx, t) ==
  IF outcome.kind = "throw" THEN FaceSwapCatch(outcome.error, ctx, t)
  ELSE Return(JsonResponse(200,
         [success |-> Bool(TRUE),
          generatedImage |-> Str(JpegDataUrl(Base64Encode(ctx.image))),
          publicImageUrl |-> ctx.url,
          downloadUrl |-> Str(ctx.downloadUrl),
          qrCode |-> Str(QrToDataURL(ctx.qrText)),
          feature |-> Str(<< "face-swap" >>),
          parameters |-> Obj([workflow_type |-> ctx.falInput.v.workflow_type,
                              gender_0 |-> ctx.falInput.v.gender_0,
                              upscale |-> ctx.falInput.v.upscale]),
          processedImages |-> Obj([faceImageSize |-> ctx.falInput.v.face_image_0.size,
                                   targetImageSize |-> ctx.falInput.v.target_image.size]),
          imageId |-> Str(ctx.imageId),
          timestamp |-> IsoDate(t),
          message |-> Str(<< "Advanced face-swap processing completed successfully" >>)]),
         ctx)

(***************************************************************************)
(* GET /download/:imageId, GET /health, the cleanup timer.                 *)
(***************************************************************************)
Buffer(bytes) == [t |-> "buffer", v |-> bytes]

\* global.imageStore && global.imageStore[imageId]
StoreHas(store, imageId) ==
  imageId \in DOMAIN store /\ Truthy(Str(store[imageId]))

downloadHandler(store, imageId) ==
  IF StoreHas(store, imageId)
  THEN LET imageBuffer == Base64Decode(store[imageId])
       IN Response(200,
            [ContentType |-> << "image/jpeg" >>,
             ContentDisposition |->
               << "attachment", "; filename=\"assetwise-generated-" >> \o imageId \o << ".jpg\"" >>,
             ContentLength |-> Len(imageBuffer),
             CacheControl |-> << "no-cache" >>],
            Buffer(imageBuffer))
  ELSE JsonResponse(404,
         [error |-> Str(<< "Image not found" >>),
          details |-> Str(<< "The requested image is no longer available for download" >>)])

\* a variant that reports the service as unhealthy while FAL_KEY is unset
healthHandlerNeedsKey(e, t) ==
  JsonResponse(IF e.FAL_KEY THEN 200 ELSE 503,
    [status |-> Str(IF e.FAL_KEY THEN << "healthy" >> ELSE << "unhealthy" >>),
     timestamp |-> IsoDate(t),
     service |-> Str(<< "assetwise-ai-generator" >>),
     version |-> Str(<< "2.0.0" >>),
     environment |-> OrElse(e.NODE_ENV, Str(<< "development" >>)),
     fal_configured |-> Bool(e.FAL_KEY)])

\* app.get('/health')
healthHandler(e, t) ==
  JsonResponse(200,
    [status |-> Str(<< "healthy" >>),
     timestamp |-> IsoDate(t),
     service |-> Str(<< "assetwise-ai-generator" >>),
     version |-> Str(<< "2.0.0" >>),
     environment |-> OrElse(e.NODE_ENV, Str(<< "development" >>)),
     fal_configured |-> Bool(e.FAL_KEY)])

\* parseInt(imageId.split('-')[0])
TimestampOf(imageId) == ParseInt(BeforeDash(imageId))

\* a variant that lets an entry live for two hours
ExpiredAfterTwoHours(imageId, t) ==
  TimestampOf(imageId) # -1 /\ t - TimestampOf(imageId) > 2 * oneHour

\* a variant that evicts an entry as soon as it is one hour old
ExpiredAtOneHour(imageId, t) ==
  TimestampOf(imageId) # -1 /\ t - TimestampOf(imageId) >= oneHour

\* now - timestamp > oneHour (false when the timestamp is NaN)
Expired(imageId, t) ==
  TimestampOf(imageId) # -1 /\ t - TimestampOf(imageId) > oneHour

\* the body of the setInterval callback
cleanup(store, t) ==
  LET kept == {id \in DOMAIN store : ~Expired(id, t)}
  IN [id \in kept |-> store[id]]

(***************************************************************************)
(* Inputs: requests, and the outcomes of the external calls.               *)
(***************************************************************************)
Environments ==
  [FAL_KEY : BOOLEAN, NODE_ENV : {Undef, Str(<< "production" >>)}]

Origins ==
  { Undef,
    Str(<< "https://", "assetwise-cam", ".netlify.app" >>),
    Str(<< "https://", "assetwise-cam", ".up", ".railway.app" >>) }

JpegType == << "image/", "jpeg" >>
TextType == << "text/", "plain" >>

\* a small image, a text file, an image over the size limit
FileKinds(fields) ==
  UNION { { File(f, JpegType, 1024), File(f, TextType, 1024),
            File(f, JpegType, FileSizeLimit + 1) } : f \in fields }

SeqsUpTo(S, n) == UNION { [1..k -> S] : k \in 0..n }

\* one file more than multer accepts
TooManyFiles(field) == [i \in 1..(FilesLimit + 1) |-> File(field, JpegType, 1024)]

Request(origin, multipart, files, body) ==
  [origin |-> origin, multipart |-> multipart, files |-> files, body |-> body,
   protocol |-> "https", host |-> "assetwise.example"]

Body(feature, prompt, gender_0, workflow_type, upscale) ==
  [feature |-> feature, prompt |-> prompt, gender_0 |-> gender_0,
   workflow_type |-> workflow_type, upscale |-> upscale]

NoRequest == Request(Undef, FALSE, <<>>, Body(Undef, Undef, Undef, Undef, Undef))

Features ==
  { Undef, Str(<< "ai-style" >>), Str(<< "custom" >>), Str(<< "face-swap" >>),
    Str(<< "cartoon" >>) }

Prompts ==
  { Undef, Str(<<>>), Str(<< " ", "\n" >>), Str(<< " ", "a castle at night", " " >>) }

GenerateBodies == { Body(f, p, Undef, Undef, Undef) : f \in Features, p \in Prompts }

FaceSwapBodies ==
  { Body(Undef, Undef, g, w, u) :
      g \in { Undef, Str(<<>>), Str(<< "female" >>) },
      w \in { Undef, Str(<< "target_hair" >>) },
      u \in { Undef, Str(<< "true" >>), Str(<< "false" >>) } }

\* a body that is not multipart carries no files
RequestsWith(fileLists, bodies) ==
  { Request(o, TRUE, fl, b) : o \in Origins, fl \in fileLists, b \in bodies }
  \cup { Request(o, FALSE, <<>>, b) : o \in Origins, b \in bodies }

GenerateRequests ==
  RequestsWith(SeqsUpTo(FileKinds({"image", "other"}), MaxFiles)
                 \cup { TooManyFiles("image") },
               GenerateBodies)

FaceSwapRequests ==
  RequestsWith(SeqsUpTo(FileKinds({"face_image", "target_image"}), MaxFiles)
                 \cup { TooManyFiles("face_image") },
               FaceSwapBodies)

Threw(error) == [kind |-> "throw", error |-> error]

FalThrows ==
  { Threw(Err(<< "Internal Server Error" >>, "", Num(500), Undef, Undef)),
    Threw(Err(<< "Bad Request" >>, "", Num(400), Str(<< "bad image" >>), Undef)),
    Threw(Err(<< "Unprocessable Entity" >>, "", Num(422), Str(<< "no face detected" >>), Undef)),
    Threw(Err(<< "Forbidden" >>, "", Num(403), Undef, Undef)),
    Threw(Err(<< "fetch failed" >>, "ENOTFOUND", Undef, Undef, Undef)) }

AllPaths == { possiblePaths[i] : i \in 1..Len(possiblePaths) } \cup { "data.image_url" }

Url1 == << "https://", "fal.media/files/a.jpg" >>
Url2 == << "https://", "fal.media/files/b.jpg" >>

\* what a path of the FAL result may hold
PathValues == { Undef, Str(<<>>), Str(Url1), Str(Url2), Num(42) }

\* the paths a handler reads in a FAL result, in the order of possiblePaths
ResultPaths == possiblePaths \o << "data.image_url" >>

\* a path of a FAL result and a path that is not before it
PathPairs ==
  { ij \in (1..Len(ResultPaths)) \X (1..Len(ResultPaths)) : ij[1] <= ij[2] }

\* the FAL results in which at most two paths are defined: the earlier one
\* holds any of the values, the later one nothing or a URL
FalResults ==
  { [kind |-> "result",
     result |-> [p \in AllPaths |->
                   IF p = ResultPaths[ij[1]] THEN v1
                   ELSE IF p = ResultPaths[ij[2]] THEN v2 ELSE Undef]] :
      ij \in PathPairs, v1 \in PathValues, v2 \in { Undef, Str(Url1) } }

FalOutcomes == FalThrows \cup FalResults

\* the images a download may return: runs of the byte 0xFF of every length up
\* to MaxImgLen (the empty body included), and the bytes of "Man"
Images == SeqsUpTo({ 255 }, MaxImgLen) \cup { << 77, 97, 110 >> }

DownloadThrows ==
  { Threw(Err(<< "getaddrinfo ENOTFOUND fal.media" >>, "ENOTFOUND", Undef, Undef, Undef)),
    Threw(Err(<< "timeout of 30000ms exceeded" >>, "ETIMEDOUT", Undef, Undef, Undef)),
    Threw(Err(<< "Request failed with status code 404" >>, "ERR_BAD_REQUEST", Undef, Undef, Num(404))),
    Threw(Err(<< "Request failed with status code 503" >>, "ERR_BAD_RESPONSE", Undef, Undef, Num(503))) }

DownloadOutcomes == DownloadThrows \cup { [kind |-> "data", data |-> img] : img \in Images }

QrOutcomes ==
  { [kind |-> "ok"],
    Threw(PlainError(<< "The amount of data is too big to be stored in a QR Code" >>)) }

\* Math.random().toString(36).substr(2, 9)
RandomSuffixes == { << "4fzx0k2mq" >>, << "9c1u8w3pe" >> }

(***************************************************************************)
(* State of the backend.                                                   *)
(***************************************************************************)
VARIABLES
  env,          \* process.env: FAL_KEY set or not, NODE_ENV
  now,          \* Date.now(), in milliseconds since the server started
  nextCleanup,  \* the time at which the cleanup timer fires next
  ticks,        \* clock ticks taken so far
  imageStore,   \* global.imageStore: imageId -> base64 text
  reqRoute,     \* per request slot: "none", "generate" or "face-swap"
  reqIn,        \* the request as it arrived
  reqPc,        \* the external call the handler awaits: "idle", "fal",
                \* "download", "qr", or "done" when the handler has ended
  reqCtx,       \* the handler's locals
  responses,    \* the responses sent for the request, in order
  falCalls,     \* calls of fal.subscribe made for the request
  downloads,    \* calls of axios.get made for the request
  qrCalls,      \* calls of QRCode.toDataURL made for the request
  lastGet       \* the GET request served by the last step, if any, and its response

backendVars ==
  << env, now, nextCleanup, ticks, imageStore, reqRoute, reqIn, reqPc, reqCtx,
     responses, falCalls, downloads, qrCalls, lastGet >>

Reqs == 1..MaxReqs

EmptyStore == [id \in {} |-> <<>>]

NoGet == [route |-> "none", imageId |-> <<>>, present |-> FALSE,
          response |-> Response(0, NoHeaders, Undef)]

BackendInit ==
  /\ env \in Environments
  /\ now = 0
  /\ nextCleanup = CleanupInterval
  /\ ticks = 0
  /\ imageStore = EmptyStore
  /\ reqRoute = [r \in Reqs |-> "none"]
  /\ reqIn = [r \in Reqs |-> NoRequest]
  /\ reqPc = [r \in Reqs |-> "idle"]
  /\ reqCtx = [r \in Reqs |-> NoCtx]
  /\ responses = [r \in Reqs |-> <<>>]
  /\ falCalls = [r \in Reqs |-> 0]
  /\ downloads = [r \in Reqs |-> 0]
  /\ qrCalls = [r \in Reqs |-> 0]
  /\ lastGet = NoGet

\* global.imageStore[id] = value, for each pair written
RECURSIVE StorePut(_, _)
StorePut(store, put) ==
  IF put = <<>> THEN store
  ELSE LET id == Head(put)[1]
           value == Head(put)[2]
       IN StorePut([x \in DOMAIN store \cup {id} |->
                      IF x = id THEN value ELSE store[x]], Tail(put))

\* the effect on request r of one synchronous stretch of its handler
Apply(r, step) ==
  /\ responses' = [responses EXCEPT ![r] = @ \o step.resp]
  /\ reqPc' = [reqPc EXCEPT ![r] = IF step.call = "none" THEN "done" ELSE step.call]
  /\ reqCtx' = [reqCtx EXCEPT ![r] = step.ctx]
  /\ falCalls' = [falCalls EXCEPT ![r] = @ + (IF step.call = "fal" THEN 1 ELSE 0)]
  /\ downloads' = [downloads EXCEPT ![r] = @ + (IF step.call = "download" THEN 1 ELSE 0)]
  /\ qrCalls' = [qrCalls EXCEPT ![r] = @ + (IF step.call = "qr" THEN 1 ELSE 0)]
  /\ imageStore' = StorePut(imageStore, step.put)

\* a request arrives and runs through cors, multer and the route handler up to
\* the handler's first await
Arrive(r, route, in, step) ==
  /\ reqRoute[r] = "none"
  /\ reqRoute' = [reqRoute EXCEPT ![r] = route]
  /\ reqIn' = [reqIn EXCEPT ![r] = in]
  /\ Apply(r, IF Middleware(env, in).error # <<>>
              THEN Return(FinalErrorHandler(Middleware(env, in).error), NoCtx)
              ELSE step)
  /\ lastGet' = NoGet
  /\ UNCHANGED << env, now, nextCleanup, ticks >>

\* an awaited external call of request r settles and the handler runs on
Settle(r, route, call, step) ==
  /\ reqRoute[r] = route
  /\ reqPc[r] = call
  /\ Apply(r, step)
  /\ lastGet' = NoGet
  /\ UNCHANGED << env, now, nextCleanup, ticks, reqRoute, reqIn >>

\* In the actions below the request, or the outcome of the awaited call, is
\* any member of the set the action is given.

PostGenerate(r, requests) ==
  /\ reqRoute[r] = "none"
  /\ \E in \in requests :
       Arrive(r, "generate", in, GenerateBegin(Middleware(env, in).files, in.body))

GenerateFalSettled(r, outcomes) ==
  /\ reqRoute[r] = "generate" /\ reqPc[r] = "fal"
  /\ \E outcome \in outcomes :
       Settle(r, "generate", "fal", GenerateAfterFal(outcome, reqCtx[r]))

\* axios.get of something that is not a URL string throws
GenerateDownloadSettled(r, outcomes) ==
  /\ reqRoute[r] = "generate" /\ reqPc[r] = "download"
  /\ \E outcome \in outcomes :
       /\ IsString(reqCtx[r].url) \/ outcome.kind = "throw"
       /\ Settle(r, "generate", "download", GenerateAfterDownload(outcome, reqCtx[r]))

GenerateQrSettled(r, outcomes) ==
  /\ reqRoute[r] = "generate" /\ reqPc[r] = "qr"
  /\ \E outcome \in outcomes :
       Settle(r, "generate", "qr",
              GenerateAfterQr(outcome, reqCtx[r], reqIn[r].body, now))

PostFaceSwap(r, requests) ==
  /\ reqRoute[r] = "none"
  /\ \E in \in requests :
       Arrive(r, "face-swap", in,
              FaceSwapBegin(env, Middleware(env, in).files, in.body))

FaceSwapFalSettled(r, outcomes) ==
  /\ reqRoute[r] = "face-swap" /\ reqPc[r] = "fal"
  /\ \E outcome \in outcomes :
       Settle(r, "face-swap", "fal", FaceSwapAfterFal(outcome, reqCtx[r], now))

FaceSwapDownloadSettled(r, outcomes) ==
  /\ reqRoute[r] = "face-swap" /\ reqPc[r] = "download"
  /\ \E outcome \in outcomes, random \in RandomSuffixes :
       Settle(r, "face-swap", "download",
              FaceSwapAfterDownload(outcome, reqCtx[r], reqIn[r], now, random))

FaceSwapQrSettled(r, outcomes) ==
  /\ reqRoute[r] = "face-swap" /\ reqPc[r] = "qr"
  /\ \E outcome \in outcomes :
       Settle(r, "face-swap", "qr", FaceSwapAfterQr(outcome, reqCtx[r], now))

requestVars ==
  << reqRoute, reqIn, reqPc, reqCtx, responses, falCalls, downloads, qrCalls >>

\* a variant that serves an image once and then forgets it
GetDownloadOnce(imageId) ==
  /\ lastGet' = [route |-> "download", imageId |-> imageId,
                 present |-> imageId \in DOMAIN imageStore,
                 response |-> downloadHandler(imageStore, imageId)]
  /\ imageStore' = [id \in DOMAIN imageStore \ {imageId} |-> imageStore[id]]
  /\ UNCHANGED << env, now, nextCleanup, ticks, requestVars >>

\* GET /download/:imageId
GetDownload(imageId) ==
  /\ lastGet' = [route |-> "download", imageId |-> imageId,
                 present |-> imageId \in DOMAIN imageStore,
                 response |-> downloadHandler(imageStore, imageId)]
  /\ UNCHANGED << env, now, nextCleanup, ticks, imageStore, requestVars >>

GetHealth ==
  /\ lastGet' = [route |-> "health", imageId |-> <<>>, present |-> FALSE,
                 response |-> healthHandler(env, now)]
  /\ UNCHANGED << env, now, nextCleanup, ticks, imageStore, requestVars >>

\* the setInterval callback runs when its period has elapsed
CleanupTimer ==
  /\ now = nextCleanup
  /\ imageStore' = cleanup(imageStore, now)
  /\ nextCleanup' = nextCleanup + CleanupInterval
  /\ lastGet' = NoGet
  /\ UNCHANGED << env, now, ticks, requestVars >>

\* time passes, but not beyond a cleanup that is due
Tick ==
  /\ ticks < MaxTicks
  /\ now < nextCleanup
  /\ now' = IF now + TickMs < nextCleanup THEN now + TickMs ELSE nextCleanup
  /\ ticks' = ticks + 1
  /\ lastGet' = NoGet
  /\ UNCHANGED << env, nextCleanup, imageStore, requestVars >>

(***************************************************************************)
(* The front end: the state of the App component (src/App.tsx), and the    *)
(* asynchronous operations it has started and that have not completed.     *)
(***************************************************************************)
VARIABLES
  state,            \* 'welcome' | 'camera' | 'preview' | 'processing' | 'result'
  selectedFeature,  \* 'ai-style' | 'custom' | 'face-swap'
  customPrompt,     \* the text of the prompt field
  capturedImage,    \* null or the data URL of the photo
  result,           \* null or the body of the success response
  error,            \* null or the message shown
  isCameraReady,
  isStartingCamera,
  facingMode,       \* 'user' | 'environment'
  targetImage,      \* null or the File chosen as face-swap target
  streamRef,        \* streamRef.current: null or the MediaStream held
  strayStream,      \* a MediaStream with live tracks that streamRef no longer holds
  pending           \* the bag of asynchronous operations that are pending

uiVars ==
  << state, selectedFeature, customPrompt, capturedImage, result, error,
     isCameraReady, isStartingCamera, facingMode, targetImage, streamRef,
     strayStream, pending >>

(***************************************************************************)
(* The Netlify function generate (netlify/functions/generate.js): one      *)
(* invocation of exports.handler, split at its awaits. process.env of the  *)
(* function is env.                                                         *)
(***************************************************************************)
VARIABLES
  fnEvent,     \* the event of the invocation, NoEvent before it
  fnPc,        \* "idle" | "fal" | "fetch" | "buffer" | "done"
  fnUrl,       \* generatedImageUrl
  fnResponse   \* what the handler returned

fnVars == << fnEvent, fnPc, fnUrl, fnResponse >>

Event(httpMethod, body) == [httpMethod |-> httpMethod, body |-> body]

NoEvent == Event("", Undef)

\* the value the handler returns
FnResponse(statusCode, headers, body) ==
  [statusCode |-> statusCode, headers |-> headers, body |-> body]

NoFnResponse == FnResponse(0, <<>>, Undef)

\* JSON.stringify of an object
Stringify(object) == [t |-> "json", v |-> Json(object)]

\* the headers of the answers to a method that is not POST and to a preflight
AllowHeaders ==
  ("Access-Control-Allow-Origin" :> "*")
  @@ ("Access-Control-Allow-Headers" :> "Content-Type")
  @@ ("Access-Control-Allow-Methods" :> "POST, OPTIONS")

\* the headers of the other answers
JsonHeaders ==
  ("Access-Control-Allow-Origin" :> "*") @@ ("Content-Type" :> "application/json")

\* JSON.parse(event.body) for the bodies of EventBodies: null parses to null,
\* an object text to the object, any other text throws a SyntaxError
JsonParse(body) ==
  IF body = Null THEN [kind |-> "value", value |-> Null]
  ELSE IF body.v = << "{", "}" >>
  THEN [kind |-> "value", value |-> Obj([image |-> Undef])]
  ELSE IF Len(body.v) = 3 /\ body.v[1] = "{\"image\":\"" /\ body.v[3] = "\"}"
  THEN [kind |-> "value", value |-> Obj([image |-> Str(<< body.v[2] >>)])]
  ELSE Threw(PlainError(<< "Unexpected token in JSON at position 0" >>))

\* catch (error) of the function
FunctionCatch(err) ==
  FnResponse(500, JsonHeaders,
             Stringify([error |-> Str(<< "Failed to process image" >>),
                        details |-> Str(err.message)]))

\* the handler up to the await of fal.subscribe: the value it returns, or
\* NoFnResponse when it goes on to call FAL
FunctionBegin(e, event) ==
  IF event.httpMethod # "POST"
  THEN FnResponse(405, AllowHeaders, Stringify([error |-> Str(<< "Method not allowed" >>)]))
  ELSE IF event.httpMethod = "OPTIONS"
  THEN FnResponse(200, AllowHeaders, Str(<<>>))
  ELSE IF ~e.FAL_KEY
  THEN FnResponse(500, JsonHeaders, Stringify([error |-> Str(<< "FAL_KEY not configured" >>)]))
  ELSE LET parsed == JsonParse(event.body)
       IN IF parsed.kind = "throw" THEN FunctionCatch(parsed.error)
          ELSE IF parsed.value = Null
          THEN FunctionCatch(PlainError(<< "Cannot read properties of null (reading 'image')" >>))
          ELSE IF ~Truthy(parsed.value.v.image)
          THEN FnResponse(400, JsonHeaders, Stringify([error |-> Str(<< "No image provided" >>)]))
          ELSE NoFnResponse

\* the methods and bodies of the invocations
HttpMethods == { "POST", "OPTIONS", "GET", "PUT", "DELETE" }

EventBodies ==
  { Null, Str(<< "image=abc" >>), Str(<< "{", "}" >>),
    Str(<< "{\"image\":\"", "data:image/jpeg;base64,/9j/4AAQ", "\"}" >>) }

Events == { Event(m, b) : m \in HttpMethods, b \in EventBodies }

FnInit ==
  /\ fnEvent = NoEvent
  /\ fnPc = "idle"
  /\ fnUrl = Undef
  /\ fnResponse = NoFnResponse

\* the function is invoked
Invoke(event) ==
  /\ fnPc = "idle"
  /\ fnEvent' = event
  /\ fnResponse' = FunctionBegin(env, event)
  /\ fnPc' = IF FunctionBegin(env, event) = NoFnResponse THEN "fal" ELSE "done"
  /\ UNCHANGED fnUrl

\* fal.subscribe settles; result.images[0].url throws when there is no image
FunctionFalSettled(outcome) ==
  /\ fnPc = "fal"
  /\ IF outcome.kind = "throw"
     THEN /\ fnResponse' = FunctionCatch(outcome.error)
          /\ fnPc' = "done"
          /\ UNCHANGED fnUrl
     ELSE IF outcome.result["images[0].url"] = Undef
     THEN /\ fnResponse' =
               FunctionCatch(PlainError(<< "Cannot read properties of undefined (reading '0')" >>))
          /\ fnPc' = "done"
          /\ UNCHANGED fnUrl
     ELSE /\ fnUrl' = outcome.result["images[0].url"]
          /\ fnPc' = "fetch"
          /\ UNCHANGED fnResponse
  /\ UNCHANGED fnEvent

\* fetch(generatedImageUrl) settles
FunctionFetchSettled(outcome) ==
  /\ fnPc = "fetch"
  /\ IF outcome.kind = "throw"
     THEN fnResponse' = FunctionCatch(outcome.error) /\ fnPc' = "done"
     ELSE fnPc' = "buffer" /\ UNCHANGED fnResponse
  /\ UNCHANGED << fnEvent, fnUrl >>

\* imageResponse.buffer() settles, and the handler returns
FunctionBufferSettled(outcome) ==
  /\ fnPc = "buffer"
  /\ fnResponse' =
       IF outcome.kind = "throw" THEN FunctionCatch(outcome.error)
       ELSE FnResponse(200, JsonHeaders,
              Stringify([success |-> Bool(TRUE),
                         ghibliImage |-> Str(JpegDataUrl(Base64Encode(outcome.data))),
                         message |-> Str(<< "Image processed successfully" >>)]))
  /\ fnPc' = "done"
  /\ UNCHANGED << fnEvent, fnUrl >>

vars == << backendVars, uiVars, fnVars >>

\* const [isProcessing, setIsProcessing] = useState(false); setIsProcessing is
\* never called
isProcessing == FALSE

\* the state after the first render
UIInit ==
  /\ state = "welcome"
  /\ selectedFeature = "ai-style"
  /\ customPrompt = <<>>
  /\ capturedImage = Null
  /\ result = Null
  /\ error = Null
  /\ isCameraReady = FALSE
  /\ isStartingCamera = FALSE
  /\ facingMode = "user"
  /\ targetImage = Null
  /\ streamRef = Null
  /\ strayStream = FALSE
  /\ pending = EmptyBag

\* what a pending operation has captured: the values of the render in which it
\* was started (a click), or the form it sends (a fetch)
Closure(route, feature, prompt, image, target) ==
  [route |-> route, feature |-> feature, prompt |-> prompt, image |-> image,
   target |-> target]

NoClosure == Closure("", "", Undef, Undef, Undef)

\* a pending operation: "getUserMedia", "attachTimer" (the 100 ms timer of
\* startCamera), "play" (video.play() after loadedmetadata), "flipTimer" (the
\* 100 ms timer of flipCamera), "read" (FileReader.readAsDataURL), "click" (the
\* Generate handler awaiting fetch(capturedImage) and blob()), "fetch" (the
\* POST of generateImage or generateFaceSwap)
Op(kind, facing, closure) == [kind |-> kind, facing |-> facing, closure |-> closure]

Started(op) == pending (+) SetToBag({ op })
Completed(op) == pending (-) SetToBag({ op })
Replaced(op, next) == (pending (-) SetToBag({ op })) (+) SetToBag({ next })
PendingOps(kind) == { op \in BagToSet(pending) : op.kind = kind }
MayStart == BagCardinality(pending) < MaxPending

\* a MediaStream obtained with the given facingMode
MediaStream(facing) == Obj([facingMode |-> facing])

\* canvas.toDataURL('image/jpeg', 0.9), or the result of readAsDataURL for a
\* JPEG file
PhotoDataUrl == Str(<< "data:image/jpeg;base64,", "/9j/4AAQ" >>)
TargetFile == Obj([name |-> << "target.jpg" >>, type |-> JpegType])

\* what the user may type into the prompt field
PromptInputs == { <<>>, << " " >>, << " ", "a castle at night", " " >> }

Toggle(facing) == IF facing = "user" THEN "environment" ELSE "user"

\* the preview screen is rendered: state === 'preview' && capturedImage
PreviewShown == state = "preview" /\ Truthy(capturedImage)

\* the result screen is rendered: state === 'result' && result
ResultShown == state = "result" /\ Truthy(result)

\* the disabled attribute of the Generate button
GenerateDisabled ==
  \/ isProcessing
  \/ selectedFeature = "custom" /\ Trim(customPrompt) = <<>>
  \/ selectedFeature = "face-swap" /\ ~Truthy(targetImage)

\* startCamera, up to the await of getUserMedia; `facing` is the facingMode of
\* the render in which the callback was made, `others` the operations that
\* stay pending
startCamera(facing, others) ==
  /\ error' = Null
  /\ isCameraReady' = FALSE
  /\ isStartingCamera' = TRUE
  /\ pending' = others (+) SetToBag({ Op("getUserMedia", facing, NoClosure) })

\* stopCamera: the tracks of the stream held are stopped and the stream is let go
stopCamera ==
  /\ streamRef' = Null
  /\ isCameraReady' = FALSE
  /\ isStartingCamera' = FALSE

\* the Start Creating button of the welcome screen
ClickStart ==
  /\ state = "welcome"
  /\ ~isStartingCamera
  /\ MayStart
  /\ startCamera(facingMode, pending)
  /\ UNCHANGED << state, selectedFeature, customPrompt, capturedImage, result,
                  facingMode, targetImage, streamRef, strayStream >>

\* getUserMedia resolves: the rest of the try block of startCamera
GetUserMediaResolved(op) ==
  /\ op \in PendingOps("getUserMedia")
  /\ streamRef' = MediaStream(op.facing)
  /\ strayStream' = (strayStream \/ streamRef # Null)
  /\ state' = "camera"
  /\ pending' = Replaced(op, Op("attachTimer", "", NoClosure))
  /\ UNCHANGED << selectedFeature, customPrompt, capturedImage, result, error,
                  isCameraReady, isStartingCamera, facingMode, targetImage >>

CameraErrorNames == { "NotAllowedError", "AbortError" }

CameraErrorMessage(name) ==
  CASE name = "NotAllowedError" ->
         << "Camera access denied. Please allow camera permissions and try again." >>
    [] name = "NotFoundError" ->
         << "No camera found. Please ensure your device has a camera." >>
    [] name = "NotReadableError" ->
         << "Camera is already in use by another application." >>
    [] OTHER ->
         << "Unable to access camera. Please check your camera settings." >>

\* getUserMedia rejects: the catch block of startCamera
GetUserMediaRejected(op, name) ==
  /\ op \in PendingOps("getUserMedia")
  /\ isStartingCamera' = FALSE
  /\ error' = Str(CameraErrorMessage(name))
  /\ pending' = Completed(op)
  /\ UNCHANGED << state, selectedFeature, customPrompt, capturedImage, result,
                  isCameraReady, facingMode, targetImage, streamRef, strayStream >>

\* the 100 ms timer of startCamera: the stream is attached to the video
\* element, which exists while the camera screen is rendered
AttachTimerFired(op) ==
  /\ op \in PendingOps("attachTimer")
  /\ pending' = IF state = "camera" /\ streamRef # Null
                THEN Replaced(op, Op("play", "", NoClosure))
                ELSE Completed(op)
  /\ UNCHANGED << state, selectedFeature, customPrompt, capturedImage, result,
                  error, isCameraReady, isStartingCamera, facingMode, targetImage,
                  streamRef, strayStream >>

\* loadedmetadata, then video.play() resolves or rejects; nothing happens when
\* the video element is gone
PlaySettled(op, played) ==
  /\ op \in PendingOps("play")
  /\ pending' = Completed(op)
  /\ IF state # "camera"
     THEN UNCHANGED << isCameraReady, isStartingCamera, error >>
     ELSE IF played
     THEN /\ isCameraReady' = TRUE
          /\ isStartingCamera' = FALSE
          /\ UNCHANGED error
     ELSE /\ error' = Str(<< "Failed to start camera preview. Please try again." >>)
          /\ isStartingCamera' = FALSE
          /\ UNCHANGED isCameraReady
  /\ UNCHANGED << state, selectedFeature, customPrompt, capturedImage, result,
                  facingMode, targetImage, streamRef, strayStream >>

\* the flip button of the camera screen; the timer calls the startCamera of
\* the render of the click, whose facingMode is the one before the toggle
flipCamera ==
  /\ state = "camera"
  /\ facingMode' = Toggle(facingMode)
  /\ IF isCameraReady
     THEN /\ MayStart
          /\ stopCamera
          /\ pending' = Started(Op("flipTimer", facingMode, NoClosure))
     ELSE UNCHANGED << streamRef, isCameraReady, isStartingCamera, pending >>
  /\ UNCHANGED << state, selectedFeature, customPrompt, capturedImage, result,
                  error, targetImage, strayStream >>

\* the 100 ms timer of flipCamera
FlipTimerFired(op) ==
  /\ op \in PendingOps("flipTimer")
  /\ startCamera(op.facing, Completed(op))
  /\ UNCHANGED << state, selectedFeature, customPrompt, capturedImage, result,
                  facingMode, targetImage, streamRef, strayStream >>

\* a feature button of the camera screen
SelectFeature(feature) ==
  /\ state = "camera"
  /\ selectedFeature' = feature
  /\ UNCHANGED << state, customPrompt, capturedImage, result, error,
                  isCameraReady, isStartingCamera, facingMode, targetImage,
                  streamRef, strayStream, pending >>

\* the shutter button, or a tap on the video
captureImage(videoHasSize) ==
  /\ state = "camera"
  /\ isCameraReady
  /\ IF ~videoHasSize
     THEN /\ error' = Str(<< "Camera not ready. Please wait for the camera to load." >>)
          /\ UNCHANGED << capturedImage, state, streamRef, isCameraReady,
                          isStartingCamera >>
     ELSE /\ capturedImage' = PhotoDataUrl
          /\ stopCamera
          /\ state' = "preview"
          /\ UNCHANGED error
  /\ UNCHANGED << selectedFeature, customPrompt, result, facingMode, targetImage,
                  strayStream, pending >>

\* the file input of the camera screen, with an image file chosen
handleFileUpload ==
  /\ state = "camera"
  /\ MayStart
  /\ pending' = Started(Op("read", "", NoClosure))
  /\ UNCHANGED << state, selectedFeature, customPrompt, capturedImage, result,
                  error, isCameraReady, isStartingCamera, facingMode, targetImage,
                  streamRef, strayStream >>

\* reader.onload
ReaderLoaded(op) ==
  /\ op \in PendingOps("read")
  /\ capturedImage' = PhotoDataUrl
  /\ stopCamera
  /\ state' = "preview"
  /\ pending' = Completed(op)
  /\ UNCHANGED << selectedFeature, customPrompt, result, error, facingMode,
                  targetImage, strayStream >>

\* the Retake button of the preview screen
retakePhoto ==
  /\ PreviewShown
  /\ MayStart
  /\ capturedImage' = Null
  /\ customPrompt' = <<>>
  /\ startCamera(facingMode, pending)
  /\ UNCHANGED << state, selectedFeature, result, facingMode, targetImage,
                  streamRef, strayStream >>

\* the prompt field of the preview screen
TypePrompt(text) ==
  /\ PreviewShown
  /\ selectedFeature = "custom"
  /\ customPrompt' = text
  /\ UNCHANGED << state, selectedFeature, capturedImage, result, error,
                  isCameraReady, isStartingCamera, facingMode, targetImage,
                  streamRef, strayStream, pending >>

\* the target image input of the preview screen
ChooseTarget(file) ==
  /\ PreviewShown
  /\ selectedFeature = "face-swap"
  /\ targetImage' = file
  /\ UNCHANGED << state, selectedFeature, customPrompt, capturedImage, result,
                  error, isCameraReady, isStartingCamera, facingMode, streamRef,
                  strayStream, pending >>

\* the Generate button, up to the await of fetch(capturedImage)
ClickGenerate ==
  /\ PreviewShown
  /\ ~GenerateDisabled
  /\ IF selectedFeature = "custom" /\ Trim(customPrompt) = <<>>
     THEN /\ error' = Str(<< "Please enter a custom prompt before generating." >>)
          /\ UNCHANGED pending
     ELSE IF selectedFeature = "face-swap" /\ ~Truthy(targetImage)
     THEN /\ error' = Str(<< "Please upload a target image for face swap." >>)
          /\ UNCHANGED pending
     ELSE /\ MayStart
          /\ pending' = Started(Op("click", "",
                                   Closure("", selectedFeature, Str(customPrompt),
                                           capturedImage, targetImage)))
          /\ UNCHANGED error
  /\ UNCHANGED << state, selectedFeature, customPrompt, capturedImage, result,
                  isCameraReady, isStartingCamera, facingMode, targetImage,
                  streamRef, strayStream >>

\* the form generateImage or generateFaceSwap sends, from the values of the
\* render in which Generate was clicked
FormOf(closure) ==
  IF closure.feature = "face-swap"
  THEN Closure("/api/face-swap", closure.feature, Undef, closure.image, closure.target)
  ELSE Closure("/api/generate",
               IF closure.feature = "" THEN "ai-style" ELSE closure.feature,
               IF closure.feature = "custom" /\ Trim(closure.prompt.v) # <<>>
               THEN Str(Trim(closure.prompt.v)) ELSE Undef,
               closure.image, Undef)

\* the Generate handler goes on after fetch(capturedImage) and blob():
\* generateImage or generateFaceSwap up to the await of its fetch
GenerateStarted(op) ==
  /\ op \in PendingOps("click")
  /\ state' = "processing"
  /\ error' = Null
  /\ pending' = Replaced(op, Op("fetch", "", FormOf(op.closure)))
  /\ UNCHANGED << selectedFeature, customPrompt, capturedImage, result,
                  isCameraReady, isStartingCamera, facingMode, targetImage,
                  streamRef, strayStream >>

\* what the fetch of a generation request may come to
FetchOutcomes ==
  { [kind |-> "ok", success |-> TRUE, details |-> Undef, error |-> Undef,
     message |-> <<>>],
    [kind |-> "ok", success |-> FALSE, details |-> Undef, error |-> Undef,
     message |-> <<>>],
    [kind |-> "status", success |-> FALSE, details |-> Str(<< "no face detected" >>),
     error |-> Str(<< "Failed to process image" >>), message |-> <<>>],
    [kind |-> "status", success |-> FALSE, details |-> Undef,
     error |-> Str(<< "No main image provided" >>), message |-> <<>>],
    [kind |-> "throw", success |-> FALSE, details |-> Undef, error |-> Undef,
     message |-> << "Failed to fetch" >>] }

\* the body of a success response, as far as the front end reads it
ResultOf(form) ==
  Obj([success |-> Bool(TRUE),
       generatedImage |-> JpegDataUrl(<< "/9j/", "AAAA" >>),
       qrCode |-> QrToDataURL(Url1),
       route |-> form.route])

\* the message of the Error that generateImage or generateFaceSwap catches
FetchErrorMessage(form, outcome) ==
  LET failed == IF form.route = "/api/face-swap"
                THEN << "Face swap failed" >> ELSE << "Generation failed" >>
  IN CASE outcome.kind = "throw" -> outcome.message
       [] outcome.kind = "status" ->
            OrElse(outcome.details, OrElse(outcome.error, Str(failed))).v
       [] OTHER -> OrElse(outcome.error, Str(failed \o << " on server" >>)).v

\* the fetch of generateImage or generateFaceSwap settles: the rest of the
\* function
FetchSettled(op, outcome) ==
  /\ op \in PendingOps("fetch")
  /\ pending' = Completed(op)
  /\ IF outcome.kind = "ok" /\ outcome.success
     THEN /\ result' = ResultOf(op.closure)
          /\ state' = "result"
          /\ UNCHANGED error
     ELSE /\ error' = Str((IF op.closure.route = "/api/face-swap"
                           THEN << "Face swap failed: " >>
                           ELSE << "Generation failed: " >>)
                          \o FetchErrorMessage(op.closure, outcome))
          /\ state' = "preview"
          /\ UNCHANGED result
  /\ UNCHANGED << selectedFeature, customPrompt, capturedImage, isCameraReady,
                  isStartingCamera, facingMode, targetImage, streamRef, strayStream >>

\* the Reset button of the header, or New Image on the result screen
reset ==
  /\ state # "welcome"
  /\ stopCamera
  /\ capturedImage' = Null
  /\ result' = Null
  /\ error' = Null
  /\ customPrompt' = <<>>
  /\ targetImage' = Null
  /\ state' = "welcome"
  /\ UNCHANGED << selectedFeature, facingMode, strayStream, pending >>

(***************************************************************************)
(* SpecUI: one instance of the front end, with every interleaving of the   *)
(* user's clicks and the completions of the pending operations.            *)
(***************************************************************************)
NextUI ==
  \/ ClickStart /\ UNCHANGED << backendVars, fnVars >>
  \/ \E op \in BagToSet(pending) : GetUserMediaResolved(op) /\ UNCHANGED << backendVars, fnVars >>
  \/ \E op \in BagToSet(pending), name \in CameraErrorNames :
       GetUserMediaRejected(op, name) /\ UNCHANGED << backendVars, fnVars >>
  \/ \E op \in BagToSet(pending) : AttachTimerFired(op) /\ UNCHANGED << backendVars, fnVars >>
  \/ \E op \in BagToSet(pending), played \in BOOLEAN :
       PlaySettled(op, played) /\ UNCHANGED << backendVars, fnVars >>
  \/ flipCamera /\ UNCHANGED << backendVars, fnVars >>
  \/ \E op \in BagToSet(pending) : FlipTimerFired(op) /\ UNCHANGED << backendVars, fnVars >>
  \/ \E feature \in {"ai-style", "custom", "face-swap"} :
       SelectFeature(feature) /\ UNCHANGED << backendVars, fnVars >>
  \/ \E videoHasSize \in BOOLEAN : captureImage(videoHasSize) /\ UNCHANGED << backendVars, fnVars >>
  \/ handleFileUpload /\ UNCHANGED << backendVars, fnVars >>
  \/ \E op \in BagToSet(pending) : ReaderLoaded(op) /\ UNCHANGED << backendVars, fnVars >>
  \/ retakePhoto /\ UNCHANGED << backendVars, fnVars >>
  \/ \E text \in PromptInputs : TypePrompt(text) /\ UNCHANGED << backendVars, fnVars >>
  \/ \E file \in { Null, TargetFile } : ChooseTarget(file) /\ UNCHANGED << backendVars, fnVars >>
  \/ ClickGenerate /\ UNCHANGED << backendVars, fnVars >>
  \/ \E op \in BagToSet(pending) : GenerateStarted(op) /\ UNCHANGED << backendVars, fnVars >>
  \/ \E op \in BagToSet(pending), outcome \in FetchOutcomes :
       FetchSettled(op, outcome) /\ UNCHANGED << backendVars, fnVars >>
  \/ reset /\ UNCHANGED << backendVars, fnVars >>

\* the front end with a backend that is configured and idle
AppInit ==
  BackendInit /\ env = [FAL_KEY |-> TRUE, NODE_ENV |-> Undef] /\ UIInit /\ FnInit

SpecUI == AppInit /\ [][NextUI]_vars

(***************************************************************************)
(* SpecRequest: one request to /api/generate or /api/face-swap, with every *)
(* request and every outcome of the external calls.                        *)
(***************************************************************************)
TheRequest == CHOOSE r \in Reqs : \A q \in Reqs : r <= q

NextRequest ==
  \/ PostGenerate(TheRequest, GenerateRequests) /\ UNCHANGED << uiVars, fnVars >>
  \/ GenerateFalSettled(TheRequest, FalOutcomes) /\ UNCHANGED << uiVars, fnVars >>
  \/ GenerateDownloadSettled(TheRequest, DownloadOutcomes) /\ UNCHANGED << uiVars, fnVars >>
  \/ GenerateQrSettled(TheRequest, QrOutcomes) /\ UNCHANGED << uiVars, fnVars >>
  \/ PostFaceSwap(TheRequest, FaceSwapRequests) /\ UNCHANGED << uiVars, fnVars >>
  \/ FaceSwapFalSettled(TheRequest, FalOutcomes) /\ UNCHANGED << uiVars, fnVars >>
  \/ FaceSwapDownloadSettled(TheRequest, DownloadOutcomes) /\ UNCHANGED << uiVars, fnVars >>
  \/ FaceSwapQrSettled(TheRequest, QrOutcomes) /\ UNCHANGED << uiVars, fnVars >>

RequestInit == BackendInit /\ UIInit /\ FnInit

SpecRequest == RequestInit /\ [][NextRequest]_vars


(***************************************************************************)
(* SpecStore: the life of global.imageStore. Several well-formed face-swap *)
(* requests run concurrently while the clock advances, the cleanup timer   *)
(* fires and GET requests are served.                                      *)
(***************************************************************************)
StoreRequests ==
  { Request(Undef, TRUE,
            << File("face_image", JpegType, 1024), File("target_image", JpegType, 1024) >>,
            Body(Undef, Undef, Undef, Undef, Undef)) }

StoreFalOutcomes ==
  { Threw(Err(<< "Internal Server Error" >>, "", Num(500), Undef, Undef)),
    [kind |-> "result",
     result |-> [p \in AllPaths |-> IF p = "data.image.url" THEN Str(Url1) ELSE Undef]] }

StoreDownloadOutcomes ==
  { Threw(Err(<< "timeout of 30000ms exceeded" >>, "ETIMEDOUT", Undef, Undef, Undef)) }
  \cup { [kind |-> "data", data |-> img] : img \in { <<>>, << 77, 97, 110 >> } }

\* the ids a client may ask for: those the store holds, those the handlers
\* made, and one that was never made
ProbeIds ==
  DOMAIN imageStore
  \cup { reqCtx[r].imageId : r \in { q \in Reqs : reqCtx[q].imageId # <<>> } }
  \cup { << "0", "-", "nosuchid" >> }

NextStore ==
  \/ \E r \in Reqs : /\ \A q \in 1..(r - 1) : reqRoute[q] # "none"
                     /\ PostFaceSwap(r, StoreRequests) /\ UNCHANGED << uiVars, fnVars >>
  \/ \E r \in Reqs : FaceSwapFalSettled(r, StoreFalOutcomes) /\ UNCHANGED << uiVars, fnVars >>
  \/ \E r \in Reqs : FaceSwapDownloadSettled(r, StoreDownloadOutcomes) /\ UNCHANGED << uiVars, fnVars >>
  \/ \E r \in Reqs : FaceSwapQrSettled(r, QrOutcomes) /\ UNCHANGED << uiVars, fnVars >>
  \/ \E id \in ProbeIds : GetDownload(id) /\ UNCHANGED << uiVars, fnVars >>
  \/ GetHealth /\ UNCHANGED << uiVars, fnVars >>
  \/ CleanupTimer /\ UNCHANGED << uiVars, fnVars >>
  \/ Tick /\ UNCHANGED << uiVars, fnVars >>

StoreInit == BackendInit /\ env.NODE_ENV = Undef /\ UIInit /\ FnInit

SpecStore == StoreInit /\ [][NextStore]_vars


(***************************************************************************)
(* FairSpecRequest: one request of each class of input, and every external *)
(* call that is awaited returns or throws.                                 *)
(***************************************************************************)
FairFileLists(fields) == SeqsUpTo({ File(f, JpegType, 1024) : f \in fields }, MaxFiles)

FairGenerateRequests ==
  { Request(o, TRUE, fl, b) :
      o \in { Undef, Str(<< "https://", "assetwise-cam", ".netlify.app" >>) },
      fl \in FairFileLists({"image"}) \cup { TooManyFiles("image") },
      b \in { Body(Undef, Undef, Undef, Undef, Undef),
              Body(Str(<< "custom" >>), Str(<< " ", "\n" >>), Undef, Undef, Undef) } }
  \cup { Request(Undef, FALSE, <<>>, Body(Undef, Undef, Undef, Undef, Undef)) }

FairFaceSwapRequests ==
  { Request(o, TRUE, fl, Body(Undef, Undef, Undef, Undef, Undef)) :
      o \in { Undef, Str(<< "https://", "assetwise-cam", ".netlify.app" >>) },
      fl \in FairFileLists({"face_image", "target_image"}) }

\* FAL throws, returns a URL at a path both handlers read, or returns no URL
FairFalOutcomes ==
  { Threw(Err(<< "Internal Server Error" >>, "", Num(500), Undef, Undef)),
    [kind |-> "result",
     result |-> [p \in AllPaths |-> IF p = "data.images[0].url" THEN Str(Url1) ELSE Undef]],
    [kind |-> "result", result |-> [p \in AllPaths |-> Undef]] }

Settled ==
  \/ GenerateFalSettled(TheRequest, FairFalOutcomes)
  \/ GenerateDownloadSettled(TheRequest, StoreDownloadOutcomes)
  \/ GenerateQrSettled(TheRequest, QrOutcomes)
  \/ FaceSwapFalSettled(TheRequest, FairFalOutcomes)
  \/ FaceSwapDownloadSettled(TheRequest, StoreDownloadOutcomes)
  \/ FaceSwapQrSettled(TheRequest, QrOutcomes)

NextFair ==
  \/ PostGenerate(TheRequest, FairGenerateRequests) /\ UNCHANGED << uiVars, fnVars >>
  \/ PostFaceSwap(TheRequest, FairFaceSwapRequests) /\ UNCHANGED << uiVars, fnVars >>
  \/ GenerateFalSettled(TheRequest, FairFalOutcomes) /\ UNCHANGED << uiVars, fnVars >>
  \/ GenerateDownloadSettled(TheRequest, StoreDownloadOutcomes) /\ UNCHANGED << uiVars, fnVars >>
  \/ GenerateQrSettled(TheRequest, QrOutcomes) /\ UNCHANGED << uiVars, fnVars >>
  \/ FaceSwapFalSettled(TheRequest, FairFalOutcomes) /\ UNCHANGED << uiVars, fnVars >>
  \/ FaceSwapDownloadSettled(TheRequest, StoreDownloadOutcomes) /\ UNCHANGED << uiVars, fnVars >>
  \/ FaceSwapQrSettled(TheRequest, QrOutcomes) /\ UNCHANGED << uiVars, fnVars >>

FairSpecRequest ==
  RequestInit /\ [][NextFair]_vars /\ WF_vars(Settled /\ UNCHANGED << uiVars, fnVars >>)

(***************************************************************************)
(* One invocation of the Netlify function, with every event and every      *)
(* outcome of its external calls.                                          *)
(***************************************************************************)
NextFunction ==
  \/ \E event \in Events : Invoke(event) /\ UNCHANGED << backendVars, uiVars >>
  \/ \E outcome \in FalOutcomes :
       FunctionFalSettled(outcome) /\ UNCHANGED << backendVars, uiVars >>
  \/ \E outcome \in DownloadThrows \cup { [kind |-> "ok"] } :
       FunctionFetchSettled(outcome) /\ UNCHANGED << backendVars, uiVars >>
  \/ \E outcome \in DownloadOutcomes :
       FunctionBufferSettled(outcome) /\ UNCHANGED << backendVars, uiVars >>

FunctionInit == BackendInit /\ UIInit /\ FnInit

SpecFunction == FunctionInit /\ [][NextFunction]_vars

(***************************************************************************)
(* Properties of the backend.                                              *)
(***************************************************************************)
\* the request in slot r has arrived
Arrived(r) == reqRoute[r] # "none"

\* the responses sent so far, over all requests
SentResponses ==
  UNION { { responses[r][i] : i \in 1..Len(responses[r]) } : r \in Reqs }

\* a success response: status 200 with success: true
IsSuccess(resp) ==
  /\ resp.status = 200
  /\ "success" \in DOMAIN resp.body
  /\ resp.body.success = Bool(TRUE)

\* the request passed cors and multer and reached its route handler
ReachedHandler(r) == Arrived(r) /\ Middleware(env, reqIn[r]).error = <<>>

\* C1: every request to /api/generate or /api/face-swap gets exactly one
\* response: never a second one on any path, and, when every awaited external
\* call returns or throws, eventually one.
C1_ExactlyOneResponse ==
  /\ [](\A r \in Reqs : Len(responses[r]) <= 1)
  /\ \A r \in Reqs : Arrived(r) ~> (Len(responses[r]) = 1)

\* C1 witness: a request went through FAL, the download and the QR code and
\* has been answered once
C1_Witness ==
  \E r \in Reqs :
    /\ falCalls[r] = 1 /\ downloads[r] = 1 /\ qrCalls[r] = 1
    /\ reqPc[r] = "done" /\ Len(responses[r]) = 1

\* C2 (as claimed): a request to /api/generate that reaches the handler with no
\* file in the field `image` is answered 400 with an error message, and FAL is
\* never called for it.
C2_MissingFileIs400 ==
  \A r \in Reqs :
    (/\ reqRoute[r] = "generate"
     /\ ReachedHandler(r)
     /\ FilesOf(reqIn[r].files, "image") = <<>>)
    => /\ Len(responses[r]) = 1
       /\ responses[r][1].status = 400
       /\ "error" \in DOMAIN responses[r][1].body
       /\ falCalls[r] = 0

\* C3: no retry: for one request at most one job is submitted to FAL and at
\* most one download of the generated image is made, whatever their outcome.
C3_NoRetry ==
  \A r \in Reqs : falCalls[r] <= 1 /\ downloads[r] <= 1

\* C3 witness: the download failed and the handler ended with one FAL call and
\* one download made
C3_Witness ==
  \E r \in Reqs :
    /\ reqPc[r] = "done" /\ falCalls[r] = 1 /\ downloads[r] = 1 /\ qrCalls[r] = 0
    /\ Len(responses[r]) = 1 /\ responses[r][1].status = 500

\* C4: every response of the two endpoints that is not a success response
\* has status 400 or 500.
C4_ErrorStatus ==
  \A resp \in SentResponses : IsSuccess(resp) \/ resp.status \in {400, 500}

\* C4 witness: a request rejected by the CORS check has been answered 500
C4_Witness ==
  \E r \in Reqs :
    /\ Arrived(r) /\ ~CorsAllows(env, reqIn[r].origin)
    /\ Len(responses[r]) = 1 /\ responses[r][1].status = 500

\* C5 (as claimed): every error response of the two endpoints carries both an
\* `error` and a `details` field.
C5_ErrorAndDetails ==
  \A resp \in SentResponses :
    ~IsSuccess(resp) => {"error", "details"} \subseteq DOMAIN resp.body

\* C6: in every success response the QR code encodes exactly publicImageUrl,
\* not the server's download URL and not the base64 data URL.
C6_QrEncodesPublicUrl ==
  \A resp \in SentResponses :
    IsSuccess(resp) =>
      /\ QrDecode(resp.body.qrCode.v) = resp.body.publicImageUrl.v
      /\ QrDecode(resp.body.qrCode.v) # resp.body.generatedImage.v
      /\ "downloadUrl" \in DOMAIN resp.body =>
           QrDecode(resp.body.qrCode.v) # resp.body.downloadUrl.v

\* C6 witness: a success response of /api/face-swap, which also carries the
\* server's download URL
C6_Witness ==
  \E r \in Reqs :
    /\ reqRoute[r] = "face-swap"
    /\ Len(responses[r]) = 1 /\ IsSuccess(responses[r][1])
    /\ "downloadUrl" \in DOMAIN responses[r][1].body

\* C7 (as claimed): GET /download/<imageId>, for an imageId returned by a
\* successful face-swap whose entry is still in the store, answers 200 with
\* Content-Disposition attachment and the bytes the server downloaded for that
\* request, which are the bytes of its generatedImage.
C7_DownloadRoundTrip ==
  \A r \in Reqs :
    (/\ lastGet.route = "download"
     /\ lastGet.present
     /\ Len(responses[r]) = 1 /\ IsSuccess(responses[r][1])
     /\ responses[r][1].body.imageId.v = lastGet.imageId)
    => /\ lastGet.response.status = 200
       /\ lastGet.response.headers.ContentDisposition[1] = "attachment"
       /\ lastGet.response.body = Buffer(reqCtx[r].image)
       /\ JpegDataUrl(Base64Encode(lastGet.response.body.v))
            = responses[r][1].body.generatedImage.v

\* C8: every stored image is removed by the cleanup timer no later than two
\* cleanup periods after it was stored: no entry is older than two hours, and
\* an entry that is two hours old is there only at the instant at which the
\* cleanup that removes it is due.
C8_RemovedWithinTwoPeriods ==
  \A id \in DOMAIN imageStore :
    /\ now - TimestampOf(id) <= 2 * CleanupInterval
    /\ now - TimestampOf(id) = 2 * CleanupInterval => now = nextCleanup

\* C8 witness: an image that was stored has been removed from the store
C8_Witness ==
  \E r \in Reqs :
    /\ reqCtx[r].imageId # <<>>
    /\ reqCtx[r].imageId \notin DOMAIN imageStore
    /\ now - TimestampOf(reqCtx[r].imageId) = 2 * CleanupInterval

(***************************************************************************)
(* Properties of the front end.                                            *)
(***************************************************************************)
\* the transitions of the five-screen flow, with Retake, the way back from a
\* failed generation, and Reset
Flow ==
  { << "welcome", "camera" >>, << "preview", "camera" >>,
    << "camera", "preview" >>, << "processing", "preview" >>,
    << "preview", "processing" >>, << "processing", "result" >> }
  \cup { << s, "welcome" >> : s \in { "camera", "preview", "processing", "result" } }

\* the generation requests of the UI instance that are in flight
Outstanding ==
  BagCardinality([op \in PendingOps("fetch") |-> pending[op]])

\* C9 (as claimed): the UI state starts at 'welcome' and every change of it is
\* a transition of the flow: camera from welcome or preview, preview from camera
\* or processing, processing from preview, result from processing, welcome from
\* any state, whatever the order of clicks and asynchronous completions.
C9_OnlyFlowTransitions ==
  /\ state = "welcome"
  /\ [][state' # state => << state, state' >> \in Flow]_vars

\* C10 (as claimed): at most one generation request of the UI instance is in
\* flight at any time.
C10_OneOutstandingRequest == Outstanding <= 1

\* C11 (as claimed): a generation request that is in flight when the user
\* presses Reset is aborted: its completion, with the UI at 'welcome', leaves
\* the UI at 'welcome' and sets neither `result` nor `error`.
C11_ResetCancelsRequest ==
  [][(state = "welcome" /\ Outstanding' < Outstanding)
       => (state' = "welcome" /\ result' = result /\ error' = error)]_vars

\* a prompt that is absent, empty or only white space
BlankPrompt(prompt) ==
  prompt = Undef \/ \A i \in 1..Len(prompt.v) : prompt.v[i] \in WhiteSpace

\* the text between the first and the last character that is not white space
Stripped(s) ==
  LET inked == { i \in 1..Len(s) : s[i] \notin WhiteSpace }
  IN IF inked = {} THEN <<>>
     ELSE SubSeq(s, CHOOSE i \in inked : \A j \in inked : i <= j,
                    CHOOSE i \in inked : \A j \in inked : i >= j)

\* a request to /api/generate that reached the handler with a file in `image`
\* and feature 'custom'
CustomRequest(r) ==
  /\ reqRoute[r] = "generate"
  /\ ReachedHandler(r)
  /\ FilesOf(reqIn[r].files, "image") # <<>>
  /\ reqIn[r].body.feature = Str(<< "custom" >>)

HasFile(r, field) == \E i \in 1..Len(reqIn[r].files) : reqIn[r].files[i].fieldname = field

\* the request was answered at once with this status and error message, FAL
\* was not called and nothing was stored
RejectedWith(r, status, message) ==
  /\ Len(responses[r]) = 1
  /\ responses[r][1].status = status
  /\ responses[r][1].body.error = Str(message)
  /\ reqPc[r] = "done"
  /\ falCalls[r] = 0 /\ downloads[r] = 0 /\ qrCalls[r] = 0
  /\ reqCtx[r].imageId = <<>>
  /\ imageStore = EmptyStore

C14_GenerateSuccessFields ==
  \A r \in Reqs :
    (reqRoute[r] = "generate" /\ Len(responses[r]) = 1 /\ responses[r][1].status = 200)
    => /\ IsSuccess(responses[r][1])
       /\ { "generatedImage", "publicImageUrl", "qrCode", "feature", "timestamp" }
            \subseteq DOMAIN responses[r][1].body
       /\ responses[r][1].body.feature = reqIn[r].body.feature

C15_ServedWitness ==
  /\ lastGet.route = "download"
  /\ lastGet.response.status = 200
  /\ lastGet.imageId \in DOMAIN imageStore

\* the origins the production deployment is described to serve: a Netlify
\* site, a Railway domain, and no Origin header
ProductionOrigins ==
  { Undef,
    Str(<< "https://", "assetwise-cam", ".netlify.app" >>),
    Str(<< "https://", "assetwise-cam", ".up", ".railway.app" >>) }

\* C16 (as claimed): with NODE_ENV=production a request from a Netlify
\* origin, from a railway.app origin, or without an Origin header is accepted
\* by the CORS check.
C16_ProductionCorsAcceptsNetlify ==
  \A r \in Reqs :
    (/\ Arrived(r)
     /\ env.NODE_ENV = Str(<< "production" >>)
     /\ reqIn[r].origin \in ProductionOrigins)
    => /\ CorsAllows(env, reqIn[r].origin)
       /\ Middleware(env, reqIn[r]).error # << "Not allowed by CORS" >>

C17_NoKeyWitness ==
  /\ lastGet.route = "health"
  /\ ~env.FAL_KEY
  /\ lastGet.response.body.fal_configured = Bool(FALSE)

\* the age of an entry at time t, from the timestamp in its id
Age(imageId, t) == t - TimestampOf(imageId)

ReturnedIds ==
  { resp.body.imageId.v :
      resp \in { q \in SentResponses : IsSuccess(q) /\ "imageId" \in DOMAIN q.body } }

\* C19: a face-swap request that is answered with an error leaves no entry in
\* the image store: once every request has been answered, each entry of the
\* store has an id that a success response gave to a client.
C19_NoEntryOnError ==
  (\A r \in Reqs : reqPc[r] \in {"none", "done"})
    => DOMAIN imageStore \subseteq ReturnedIds

\* C20: the camera is released whenever the UI is not on the camera screen:
\* in every state other than 'camera' streamRef holds no MediaStream and no
\* stream that streamRef once held is left with live tracks.
C20_CameraReleasedOffCameraScreen ==
  state # "camera" => (streamRef = Null /\ ~strayStream)

\* C21: every screen has its data: in state 'preview' a captured image is
\* present and in state 'result' a result is present, so the preview and the
\* result screens are never blank.
C21_ScreensHaveData ==
  /\ state = "preview" => capturedImage # Null
  /\ state = "result" => result # Null

\* C22: the UI does not stay in 'processing' once its request settles: a step
\* in which the fetch of generateImage or generateFaceSwap completes while the
\* UI is in 'processing' leads to 'result' with a result set, or to 'preview'
\* with an error message set and the captured image still present.
C22_ProcessingEndsOnSettle ==
  [][(state = "processing" /\ Outstanding' < Outstanding)
       => \/ state' = "result" /\ result' # Null
          \/ state' = "preview" /\ error' # Null /\ capturedImage' # Null]_vars

\* the value a client reads at a key of a JSON body (undefined when absent)
Field(body, key) == IF key \in DOMAIN body THEN body[key] ELSE Undef

\* the two fixed texts of the inner catch of /api/face-swap
InternalErrorText ==
  << "FAL.ai internal server error. This could be due to:\n",
     "* Invalid image format or corruption\n",
     "* Images too large or too small\n",
     "* Face detection failed\n",
     "* Temporary FAL.ai service issues" >>

InvalidInputText ==
  << "Invalid input parameters. Check image formats and parameters." >>

\* the FAL call of face-swap request r threw
FalThrew(r) == reqRoute[r] = "face-swap" /\ reqCtx[r].falError # Undef

\* C23: when the FAL call of POST /api/face-swap throws, whatever its status,
\* the only response is 500 'FAL.ai face-swap failed' with falStatus equal to
\* the status of the FAL error; nothing is downloaded, no QR code is made and
\* the store is unchanged. details is one fixed text for status 500, another
\* for status 400, otherwise the detail of the FAL body when there is one,
\* otherwise the message of the error.
C23_FalErrorResponse ==
  \A r \in Reqs :
    FalThrew(r)
      => LET falError == reqCtx[r].falError
             body == responses[r][1].body
         IN /\ reqPc[r] = "done"
            /\ Len(responses[r]) = 1
            /\ responses[r][1].status = 500
            /\ body.error = Str(<< "FAL.ai face-swap failed" >>)
            /\ Field(body, "falStatus") = falError.status
            /\ body.details =
                 Str(CASE falError.status = Num(500) -> InternalErrorText
                       [] falError.status = Num(400) -> InvalidInputText
                       [] OTHER -> IF Truthy(falError.detail)
                                   THEN falError.detail.v ELSE falError.message)
            /\ downloads[r] = 0
            /\ qrCalls[r] = 0
            /\ imageStore = EmptyStore

\* C23 witness: the FAL call threw with status 400 and a detail in its body,
\* and the request was answered
C23_Witness ==
  \E r \in Reqs :
    /\ FalThrew(r)
    /\ reqCtx[r].falError.status = Num(400)
    /\ Truthy(reqCtx[r].falError.detail)
    /\ Len(responses[r]) = 1

\* C23 witness without a status: the FAL call failed before any HTTP answer
C23_NoStatusWitness ==
  \E r \in Reqs :
    /\ FalThrew(r)
    /\ reqCtx[r].falError.status = Undef
    /\ responses[r][1].body.details = Str(reqCtx[r].falError.message)

\* a value that qualifies as the URL of the generated image: a non-empty string
IsUrl(v) == IsString(v) /\ v.v # <<>>

\* the candidates of a FAL result that qualify, by their place in the search order
Qualifying(falResult) ==
  { i \in 1..Len(possiblePaths) : IsUrl(falResult[possiblePaths[i]]) }

\* the FAL call of face-swap request r returned a result
FalReturned(r) == reqRoute[r] = "face-swap" /\ reqCtx[r].result # Undef

\* C24: the URL of the generated image of POST /api/face-swap is the first
\* candidate that is a non-empty string, in the order data.image.url,
\* data.images[0].url, image.url, images[0].url, data.output.url,
\* data.result.url, data.generated_image.url, data.swap_image.url; when no
\* candidate qualifies the response is 500 'No generated image found in
\* face-swap response' and nothing is downloaded, no QR code is made and
\* nothing is stored.
C24_FirstCandidateUrl ==
  /\ possiblePaths =
       << "data.image.url", "data.images[0].url", "image.url", "images[0].url",
          "data.output.url", "data.result.url", "data.generated_image.url",
          "data.swap_image.url" >>
  /\ \A r \in Reqs :
       FalReturned(r)
         => LET falResult == reqCtx[r].result
            IN IF Qualifying(falResult) = {}
               THEN /\ reqPc[r] = "done"
                    /\ Len(responses[r]) = 1
                    /\ responses[r][1].status = 500
                    /\ responses[r][1].body.error =
                         Str(<< "No generated image found in face-swap response" >>)
                    /\ downloads[r] = 0
                    /\ qrCalls[r] = 0
                    /\ imageStore = EmptyStore
               ELSE /\ reqPc[r] = "download"
                    /\ downloads[r] = 1
                    /\ \E i \in Qualifying(falResult) :
                         /\ \A j \in Qualifying(falResult) : i <= j
                         /\ reqCtx[r].url = falResult[possiblePaths[i]]

\* C24 witness: two candidates hold different URLs, the first candidate of the
\* order holds nothing, and the download of the earlier URL was started
C24_Witness ==
  \E r \in Reqs :
    /\ FalReturned(r)
    /\ reqPc[r] = "download"
    /\ reqCtx[r].result["data.image.url"] = Undef
    /\ reqCtx[r].result["image.url"] = Str(Url2)
    /\ reqCtx[r].result["data.output.url"] = Str(Url1)
    /\ reqCtx[r].url = Str(Url2)

\* C24 witness without a URL: only values that do not qualify
C24_NoUrlWitness ==
  \E r \in Reqs :
    /\ FalReturned(r)
    /\ reqCtx[r].result["images[0].url"] = Str(<<>>)
    /\ reqPc[r] = "done"

\* C25: flipping the camera while it is ready restarts it with the new facing
\* mode: every stream that is being requested from getUserMedia has the
\* facingMode of the state that drives the mirrored rendering, so that the
\* active stream and the rendering agree.
C25_FlipUsesNewFacingMode ==
  \A op \in PendingOps("getUserMedia") : op.facing = facingMode

\* the value of an optional form field, or its default when absent or empty
FieldOrDefault(field, default) ==
  IF field = Undef \/ field = Str(<<>>) THEN Str(default) ELSE field

\* face-swap request r has submitted its input to FAL
SentToFal(r) == reqRoute[r] = "face-swap" /\ reqCtx[r].falInput # Undef

\* C26: in POST /api/face-swap the upscale sent to FAL is true exactly when
\* the form field equals 'true'; gender_0 is 'male' and workflow_type is
\* 'user_hair' when the field is absent or empty and the field's value
\* otherwise; the parameters of the success response are the values sent.
C26_OptionNormalisation ==
  \A r \in Reqs :
    SentToFal(r)
      => LET sent == reqCtx[r].falInput.v
             body == reqIn[r].body
         IN /\ sent.upscale = Bool(body.upscale = Str(<< "true" >>))
            /\ sent.gender_0 = FieldOrDefault(body.gender_0, << "male" >>)
            /\ sent.workflow_type = FieldOrDefault(body.workflow_type, << "user_hair" >>)
            /\ \A i \in 1..Len(responses[r]) :
                 IsSuccess(responses[r][i])
                   => responses[r][i].body.parameters =
                        Obj([workflow_type |-> sent.workflow_type,
                             gender_0 |-> sent.gender_0,
                             upscale |-> sent.upscale])

\* C26 witness: a request with gender_0 'female', no workflow_type and
\* upscale 'false' was answered with success
C26_Witness ==
  \E r \in Reqs :
    /\ SentToFal(r)
    /\ reqIn[r].body.gender_0 = Str(<< "female" >>)
    /\ reqIn[r].body.workflow_type = Undef
    /\ reqIn[r].body.upscale = Str(<< "false" >>)
    /\ Len(responses[r]) = 1
    /\ IsSuccess(responses[r][1])

\* a request to /api/generate that reached the handler with a file in `image`
\* and a feature other than 'custom'
StyleRequest(r) ==
  /\ reqRoute[r] = "generate"
  /\ ReachedHandler(r)
  /\ HasFile(r, "image")
  /\ reqIn[r].body.feature # Str(<< "custom" >>)

BadUpload(in) ==
  /\ in.multipart
  /\ \/ Len(in.files) > 10
     \/ \E i \in 1..Len(in.files) :
          \/ in.files[i].mimetype = <<>>
          \/ Head(in.files[i].mimetype) # "image/"
          \/ in.files[i].size > 10 * 1024 * 1024

\* C28: a request to /api/generate or /api/face-swap whose upload holds a file
\* that is not an image, a file larger than 10 MB or more than 10 files never
\* reaches its route handler: its only response is the one of the final error
\* handler, 500 with error and details, and FAL is not called for it.
C28_UploadValidation ==
  \A r \in Reqs :
    (Arrived(r) /\ BadUpload(reqIn[r]))
      => /\ ~ReachedHandler(r)
         /\ reqPc[r] = "done"
         /\ Len(responses[r]) = 1
         /\ responses[r][1].status = 500
         /\ { "error", "details" } \subseteq DOMAIN responses[r][1].body
         /\ falCalls[r] = 0
         /\ reqCtx[r] = NoCtx
         /\ imageStore = EmptyStore

\* C28 witness: a face-swap request whose origin is allowed and whose second
\* file is not an image was answered by the final error handler
C28_Witness ==
  \E r \in Reqs :
    /\ reqRoute[r] = "face-swap"
    /\ CorsAllows(env, reqIn[r].origin)
    /\ Len(reqIn[r].files) = 2
    /\ reqIn[r].files[1].mimetype = JpegType
    /\ reqIn[r].files[2].mimetype = TextType
    /\ responses[r] = << FinalErrorHandler(<< "Only image files are allowed" >>) >>

\* C28 witness of the other two limits: an upload of eleven images, and an
\* upload with an image of more than 10 MB, were answered by the final error
\* handler
C28_LimitsWitness ==
  \E r \in Reqs :
    /\ Arrived(r)
    /\ CorsAllows(env, reqIn[r].origin)
    /\ \/ Len(reqIn[r].files) = FilesLimit + 1
       \/ /\ Len(reqIn[r].files) = 1
          /\ reqIn[r].files[1].size > FileSizeLimit
          /\ reqIn[r].files[1].mimetype = JpegType
    /\ Len(responses[r]) = 1
    /\ responses[r][1].status = 500

\* C29: the Netlify generate function handles the CORS preflight: an OPTIONS
\* request is answered 200 with the Access-Control-Allow-* headers and an
\* empty body, and every method other than POST and OPTIONS is answered 405
\* 'Method not allowed'.
C29_PreflightHandled ==
  fnPc # "idle"
    => /\ fnEvent.httpMethod = "OPTIONS"
            => /\ fnResponse.statusCode = 200
               /\ { "Access-Control-Allow-Origin", "Access-Control-Allow-Headers",
                    "Access-Control-Allow-Methods" } \subseteq DOMAIN fnResponse.headers
               /\ fnResponse.body = Str(<<>>)
       /\ fnEvent.httpMethod \notin { "POST", "OPTIONS" }
            => /\ fnResponse.statusCode = 405
               /\ fnResponse.body = Stringify([error |-> Str(<< "Method not allowed" >>)])

====
